---------------------------- MODULE Spec2Model ----------------------------
(***************************************************************************)
(* HALO: gesture classifier (GestureClassifier.ts) and particle effects    *)
(* engine (EffectsManager.ts).                                             *)
(*                                                                         *)
(* Specifications                                                          *)
(*   SpecClassifier  updateState / reset driven by arbitrary frames        *)
(*   SpecSnapshot    the same classifier with callers that keep the        *)
(*                   objects returned by updateState and getCurrentState   *)
(*   SpecEngine      updateAndRender / clear driven by a caller that holds *)
(*                   and switches gestures                                 *)
(*   SpecEngineDeep  the same engine with a caller that makes more changes *)
(*   SpecDetectors   classifyFrame computed from hand geometry             *)
(*   SpecCrop        computeCenteredCrop and normToCropPx                  *)
(*   SpecApp         HaloApp's frame loop: classifier, countdown, engine   *)
(***************************************************************************)
EXTENDS Integers, Sequences, FiniteSets, TLC

(***************************************************************************)
(* Program constants (src/src/constants.ts)                                *)
(***************************************************************************)
STABILITY_FRAMES == 30
LOST_GRACE_FRAMES == 12

GestureType ==
  {"NONE", "THUMBS_UP_HALO", "TWO_HAND_HEART", "ROCK_SIGN", "POINT_SPARKLES", "PEACE_SIGN"}

(***************************************************************************)
(* Bounds of the model                                                     *)
(***************************************************************************)
\* at most this many detectors match in one frame fed to the state machine
MaxMatching == 1
\* number of distinct non-zero confidence values a detector reports
NumConfLevels == 2
\* detectors (in evaluation order) that may match in the frames of SpecSnapshot
SnapshotGestures == 2

Max(a, b) == IF a >= b THEN a ELSE b
Min(a, b) == IF a <= b THEN a ELSE b

(***************************************************************************)
(* Numbers.  A confidence is a JavaScript number; the model counts it in   *)
(* percent and keeps the two values of a division by zero apart from the   *)
(* integers: 0 / 0 is NaN, x / 0 for x > 0 is Infinity.                     *)
(***************************************************************************)
NaN == -1
Infinity == 1000000

\* a > b: false when either side is NaN
Greater_OrEqual(a, b) == a # NaN /\ b # NaN /\ a >= b

Greater(a, b) == a # NaN /\ b # NaN /\ a > b

\* Math.max and Math.min return NaN when an argument is NaN
MathMax(a, b) == IF a = NaN \/ b = NaN THEN NaN ELSE Max(a, b)
MathMin(a, b) == IF a = NaN \/ b = NaN THEN NaN ELSE Min(a, b)

\* a + b and a / n (n a positive literal)
Plus(a, b) == IF a = NaN \/ b = NaN THEN NaN ELSE a + b
Over(a, n) == IF a = NaN THEN NaN ELSE a \div n

\* n / d for n, d >= 0, in percent
Ratio(n, d) ==
  IF d = 0 THEN (IF n = 0 THEN NaN ELSE Infinity) ELSE (100 * n) \div d

(***************************************************************************)
(* Frames.  A frame carries optional pose data, optional hand data and,    *)
(* for each of the five detectors in evaluation order, the confidence the  *)
(* detector computes on the frame's hands (percent; 0: the detector        *)
(* returned {NONE, 0}).                                                    *)
(***************************************************************************)
DetectorOrder ==
  <<"THUMBS_UP_HALO", "TWO_HAND_HEART", "ROCK_SIGN", "POINT_SPARKLES", "PEACE_SIGN">>

ConfLevels == {100 - 30 * k : k \in 0..(NumConfLevels - 1)}

Matching(d) == Cardinality({i \in 1..5 : d[i] > 0})

NoMatch == [i \in 1..5 |-> 0]

\* pose data is only read by classifyFrame's first test, so frames whose hands
\* make a detector match are enumerated with pose data present
Frames ==
  {[pose |-> TRUE, hands |-> TRUE, d |-> d] :
      d \in {x \in [1..5 -> {0} \cup ConfLevels] : Matching(x) <= MaxMatching}}
  \cup {[pose |-> p, hands |-> h, d |-> NoMatch] : p \in BOOLEAN, h \in BOOLEAN}

\* detectThumbsUp .. detectPeaceSign: every detector returns {NONE, 0} without hands
DetectorResult(f, i) ==
  IF f.hands /\ f.d[i] # 0
    THEN [type |-> DetectorOrder[i], confidence |-> f.d[i]]
    ELSE [type |-> "NONE", confidence |-> 0]

RECURSIVE ReduceBest(_, _, _)
\* gestures.reduce((best, current) => current.confidence > best.confidence ? current : best)
ReduceBest(f, i, best) ==
  IF i > 5 THEN best
  ELSE LET current == DetectorResult(f, i)
       IN ReduceBest(f, i + 1,
                     IF Greater(current.confidence, best.confidence)
                       THEN current ELSE best)

classifyFrame(f) ==
  IF ~f.pose /\ ~f.hands
    THEN [type |-> "NONE", confidence |-> 0]
    ELSE ReduceBest(f, 2, DetectorResult(f, 1))

(***************************************************************************)
(* GestureClassifier state machine                                         *)
(***************************************************************************)
InitialState ==
  [type |-> "NONE", confidence |-> 0, locked |-> FALSE, stabilityCount |-> 0]

\* variant: the test of the grace counter inverted
GraceRemains_Inverted(g) == g < 0

\* line 47-48: a locked gesture that differs still has grace left
GraceRemains(g) == g > 0

\* variant: the comparison without the NONE exclusion
SameGesture_NoNoneCheck(s, type) == s.type = type

\* line 59: the frame shows the same gesture as before
SameGesture(s, type) == s.type = type /\ type # "NONE"

\* variant: the threshold compared with > instead of >=
ShouldLock_Late(n) == n > STABILITY_FRAMES

\* variant: the lock is taken one frame early
ShouldLock_Early(n) == n >= STABILITY_FRAMES - 1

\* line 64: the stability threshold is reached
ShouldLock(n) == n >= STABILITY_FRAMES

\* variant: a lock that starts with one grace frame too many
GraceOnLock_OneMore == LOST_GRACE_FRAMES + 1

\* line 67: the grace counter a new lock starts with
GraceOnLock == LOST_GRACE_FRAMES

\* variant: a frame of the locked gesture raises the stored confidence
KeepLocked_RaisesConfidence(s, g, confidence) ==
  [state |-> [s EXCEPT !.confidence = MathMax(@, confidence)], grace |-> g]

\* lines 41-44: locked and the same type, return this.currentState
KeepLocked(s, g, confidence) == [state |-> s, grace |-> g]

\* variant: the count restarts at 0
Restart_FromZero(s, type, confidence) ==
  [s EXCEPT !.type = type, !.confidence = confidence, !.stabilityCount = 0]

\* variant: the confidence of the earlier gesture is kept
Restart_KeepsConfidence(s, type, confidence) ==
  [s EXCEPT !.type = type, !.stabilityCount = 1]

\* lines 70-75: different gesture or none detected, reset
Restart(s, type, confidence) ==
  [s EXCEPT !.type = type, !.confidence = confidence, !.stabilityCount = 1]

\* variant: a new lock keeps the grace that is left
GraceOnLock_Leftover(g) == g

\* line 67, as a function of the counter before
GraceAfterLock(g) == GraceOnLock

\* variant: a miss costs two grace frames
GraceSpent_Twice(g) == g - 2

\* line 48: this.graceFramesRemaining--
GraceSpent(g) == g - 1

\* updateState on state s with grace counter g: the state and counter it leaves
updateState(s, g, f) ==
  LET c == classifyFrame(f)
      type == c.type
      confidence == c.confidence
  IN
  IF s.locked /\ s.type = type THEN KeepLocked(s, g, confidence)
  ELSE IF s.locked /\ s.type # type /\ GraceRemains(g)
    THEN [state |-> s, grace |-> GraceSpent(g)]
  ELSE
    LET s1 == IF s.locked /\ s.type # type
                THEN [s EXCEPT !.locked = FALSE, !.stabilityCount = 0]
                ELSE s
    IN
    IF SameGesture(s1, type)
      THEN LET n == s1.stabilityCount + 1
               s2 == [s1 EXCEPT !.stabilityCount = n,
                                !.confidence = MathMax(s1.confidence, confidence)]
           IN IF ShouldLock(n)
                THEN [state |-> [s2 EXCEPT !.locked = TRUE], grace |-> GraceAfterLock(g)]
                ELSE [state |-> s2, grace |-> g]
      ELSE [state |-> Restart(s1, type, confidence), grace |-> g]

(***************************************************************************)
(* Objects.  currentState is a reference to a GestureState object; reset() *)
(* and getCurrentState() create new objects, updateState mutates the       *)
(* object currentState refers to and returns that reference.               *)
(***************************************************************************)
ObjIds == 1..4
NoRef == 0

VARIABLES
  heap,                  \* ObjIds -> GestureState object
  currentState,          \* GestureClassifier.currentState (a reference)
  graceFramesRemaining,  \* GestureClassifier.graceFramesRemaining
  heldRef,               \* caller: the reference the last updateState returned
  snapRef,               \* caller: the reference the last getCurrentState returned
  snapDirty,             \* caller: it has written to the object behind snapRef
  lastOp,                \* history: the operation that produced this state
  hist,                  \* history: runs of frames seen by updateState
  eng,                   \* the EffectsManager object
  input,                 \* the caller of the engine: what it has passed so far
  world                  \* the environment of the engine for this run

cvars == <<heap, currentState, graceFramesRemaining, heldRef, snapRef, snapDirty,
           lastOp, hist>>

evars == <<eng, input, world>>

vars == <<cvars, evars>>

\* the classifier on its own: no engine is constructed
NoEngine == <<>>

cur == heap[currentState]

Live(c, h, s) == {c, h, s} \ {NoRef}

\* the object a `new`/literal expression creates: the lowest unused identity
Alloc(live) == CHOOSE i \in ObjIds : i \notin live /\ \A j \in ObjIds \ live : i <= j

\* unreferenced objects are garbage: their slots return to the initial content
Collect(h, live) == [i \in ObjIds |-> IF i \in live THEN h[i] ELSE InitialState]

(***************************************************************************)
(* History variables (not program state).                                  *)
(*   frameType, runLen   type of the last classified frame and the number  *)
(*                       of consecutive frames of that type (capped)       *)
(*   runFromUnlocked     the classifier was unlocked when that run began   *)
(*   lockG               gesture of the lock being tracked ("NONE": none)  *)
(*   missLen             consecutive frames, up to now, that differ from   *)
(*                       lockG (capped at LOST_GRACE_FRAMES + 1)           *)
(*   missRuns            runs of such frames since the lock was acquired   *)
(*   missTotal           such frames since the lock was acquired (capped)  *)
(*   resetFrom           kind of state the last reset() was called in      *)
(*   frameConf           confidence of the last classified frame           *)
(*   accMax              highest confidence among the frames of the        *)
(*                       current run, counted from the unlocking call if   *)
(*                       the run began under a lock (0 while locked)       *)
(*   sinceUnlock         frames of one type, from and including the call   *)
(*                       that unlocked (capped; 0: no such run)            *)
(***************************************************************************)
RunCap == STABILITY_FRAMES
MissCap == LOST_GRACE_FRAMES + 1

InitialHist ==
  [frameType |-> "NONE", runLen |-> 0, runFromUnlocked |-> TRUE,
   lockG |-> "NONE", missLen |-> 0, missRuns |-> 0, missTotal |-> 0,
   resetFrom |-> "none", frameConf |-> 0, accMax |-> 0, sinceUnlock |-> 0]

StateKind(s, g) ==
  IF s.locked THEN (IF g = LOST_GRACE_FRAMES THEN "locked" ELSE "grace")
  ELSE IF s.stabilityCount = 0 THEN "initial" ELSE "accumulating"

HistAfterUpdate(h, pre, post, c) ==
  LET type == c.type
      newRun == h.runLen = 0 \/ h.frameType # type
      acquired == ~pre.locked /\ post.locked
      unlocked == pre.locked /\ ~post.locked
      tracking == h.lockG # "NONE" /\ ~acquired
      miss == tracking /\ type # h.lockG
  IN [frameType |-> type,
      runLen |-> IF newRun THEN 1 ELSE Min(h.runLen + 1, RunCap),
      runFromUnlocked |-> IF newRun THEN ~pre.locked ELSE h.runFromUnlocked,
      lockG |-> IF acquired THEN post.type
                ELSE IF tracking /\ (pre.locked \/ miss) THEN h.lockG
                ELSE "NONE",
      missLen |-> IF miss THEN Min(h.missLen + 1, MissCap) ELSE 0,
      missRuns |-> IF acquired \/ ~tracking \/ (~pre.locked /\ ~miss) THEN 0
                   ELSE IF miss /\ h.missLen = 0 THEN Min(h.missRuns + 1, 2)
                   ELSE h.missRuns,
      missTotal |-> IF acquired \/ ~tracking \/ (~pre.locked /\ ~miss) THEN 0
                    ELSE IF miss THEN Min(h.missTotal + 1, MissCap)
                    ELSE h.missTotal,
      resetFrom |-> "none",
      frameConf |-> c.confidence,
      accMax |-> IF post.locked THEN 0
                 ELSE IF newRun \/ unlocked THEN c.confidence
                 ELSE Max(h.accMax, c.confidence),
      sinceUnlock |-> IF unlocked THEN 1
                      ELSE IF h.sinceUnlock > 0 /\ type = h.frameType
                        THEN Min(h.sinceUnlock + 1, RunCap)
                      ELSE 0]

(***************************************************************************)
(* Classifier operations                                                   *)
(***************************************************************************)
\* reset(), lines 380-385: the fields of the new state object
ResetState == InitialState

\* variant: reset() that leaves the grace counter as it is
ResetGrace_Stale == graceFramesRemaining

\* reset(), line 387
ResetGrace == 0

\* getCurrentState(): { ...this.currentState }, the fields of the object returned
SnapshotOf(s) ==
  [type |-> s.type, confidence |-> s.confidence, locked |-> s.locked,
   stabilityCount |-> s.stabilityCount]

\* variant: getCurrentState returning this.currentState itself
SnapshotRef_Alias(c, live) == c

\* getCurrentState(): the reference returned (a new object)
SnapshotRef(c, live) == Alloc(live)

InitClassifier ==
  /\ heap = [i \in ObjIds |-> InitialState]
  /\ currentState = 1
  /\ graceFramesRemaining = 0
  /\ heldRef = NoRef
  /\ snapRef = NoRef
  /\ snapDirty = FALSE
  /\ lastOp = "init"
  /\ hist = InitialHist

\* the classifier constructed on its own
InitClassifierAlone ==
  /\ InitClassifier
  /\ eng = NoEngine
  /\ input = NoEngine
  /\ world = NoEngine

\* updateState(frame); keep: the caller keeps the returned reference
UpdateStateCall(f, keep) ==
  LET r == updateState(cur, graceFramesRemaining, f)
      held == IF keep THEN currentState ELSE NoRef
  IN /\ heap' = Collect([heap EXCEPT ![currentState] = r.state],
                        Live(currentState, held, snapRef))
     /\ graceFramesRemaining' = r.grace
     /\ heldRef' = held
     /\ lastOp' = "updateState"
     /\ UNCHANGED <<currentState, snapRef, snapDirty, evars>>

ResetCall ==
  LET live == Live(NoRef, heldRef, snapRef)
      fresh == Alloc(live)
  IN /\ currentState' = fresh
     /\ heap' = Collect([heap EXCEPT ![fresh] = ResetState], live \cup {fresh})
     /\ graceFramesRemaining' = ResetGrace
     /\ lastOp' = "reset"
     /\ UNCHANGED <<heldRef, snapRef, snapDirty, evars>>

UpdateState ==
  \E f \in Frames :
    /\ UpdateStateCall(f, FALSE)
    /\ hist' = HistAfterUpdate(hist, cur, heap'[currentState], classifyFrame(f))

Reset ==
  /\ ResetCall
  /\ hist' = [InitialHist EXCEPT !.resetFrom = StateKind(cur, graceFramesRemaining)]

NextClassifier == UpdateState \/ Reset

SpecClassifier == InitClassifierAlone /\ [][NextClassifier]_vars

(***************************************************************************)
(* The classifier with callers that keep what it returns                   *)
(***************************************************************************)
FramesSnapshot ==
  {f \in Frames : /\ f.pose
                  /\ \A i \in 1..5 : f.d[i] \in {0, 100}
                  /\ \A i \in 1..5 : i > SnapshotGestures => f.d[i] = 0}

\* HaloApp.update: const state = this.classifier.updateState(mpResults),
\* kept by handleGestureStateChange in this.lastGestureState
UpdateStateKeep ==
  /\ \E f \in FramesSnapshot : UpdateStateCall(f, TRUE)
  /\ UNCHANGED hist

ResetKeep ==
  /\ ResetCall
  /\ UNCHANGED hist

GetCurrentState ==
  LET ref == SnapshotRef(currentState, Live(currentState, heldRef, NoRef))
  IN /\ snapRef' = ref
     /\ heap' = Collect([heap EXCEPT ![ref] = SnapshotOf(cur)],
                        Live(currentState, heldRef, ref))
     /\ snapDirty' = FALSE
     /\ lastOp' = "getCurrentState"
     /\ UNCHANGED <<currentState, graceFramesRemaining, heldRef, hist, evars>>

\* a caller writes one field of the object getCurrentState gave it
MutateSnapshot ==
  /\ snapRef # NoRef
  /\ ~snapDirty
  /\ \E w \in {[heap[snapRef] EXCEPT !.locked = ~@],
               [heap[snapRef] EXCEPT !.stabilityCount = @ + 1],
               [heap[snapRef] EXCEPT !.type = "NONE", !.confidence = 0]} :
       /\ w # heap[snapRef]
       /\ heap' = [heap EXCEPT ![snapRef] = w]
  /\ snapDirty' = TRUE
  /\ lastOp' = "mutate"
  /\ UNCHANGED <<currentState, graceFramesRemaining, heldRef, snapRef, hist, evars>>

NextSnapshot == UpdateStateKeep \/ ResetKeep \/ GetCurrentState \/ MutateSnapshot

SpecSnapshot == InitClassifierAlone /\ [][NextSnapshot]_vars

(***************************************************************************)
(* The detectors.  A hand is described by what the detectors read from its *)
(* landmarks: whether the thumb tip is above the thumb joint, the shape of *)
(* each finger, whether the index and middle tips are above the wrist, the *)
(* palm width and the distance of the index and middle tips (hundredths of *)
(* the frame).  A frame with two hands also gives the distances of the two *)
(* thumb tips and of the two index tips (thousandths of the frame).        *)
(***************************************************************************)
FINGER_EXTENDED_ANGLE == 40
\* variant: half the threshold
HEART_THRESHOLD_Halved == 70 \div 2

\* HEART_THRESHOLD = 0.07, in thousandths
HEART_THRESHOLD == 70

\* number of updateState calls made with one frame
MaxCalls == 2

FingerShapes == {"straight", "bent", "hooked", "folded", "collapsed"}
PalmChoices == {0, 20}
SepChoices == {0, 1, 2}
DistChoices == {0, 28, 112}

AbsentHand ==
  [present |-> FALSE, thumbUp |-> FALSE, index |-> "folded", middle |-> "folded",
   ring |-> "folded", pinky |-> "folded", raised |-> FALSE, palm |-> 0, sep |-> 0]

\* the wrist, the palm width and the tip separation are read only for a hand
\* whose index and middle fingers are straight or bent and whose ring and
\* pinky are folded; the other hands are listed with one value of them
FullHands ==
  {h \in {[present |-> TRUE, thumbUp |-> t, index |-> i, middle |-> m, ring |-> r,
           pinky |-> p, raised |-> u, palm |-> w, sep |-> s] :
             t \in BOOLEAN, i \in FingerShapes, m \in FingerShapes,
             r \in {"straight", "folded"}, p \in {"straight", "folded"},
             u \in BOOLEAN, w \in PalmChoices, s \in SepChoices} :
     \/ /\ h.index \in {"straight", "bent"} /\ h.middle \in {"straight", "bent"}
        /\ h.ring = "folded" /\ h.pinky = "folded"
     \/ h.raised /\ h.palm = 20 /\ h.sep = 2}

\* the second hand of a two-hand frame: a clean thumbs-up, rock, point or
\* peace hand, or a peace hand whose landmarks all coincide across the fingers
SecondHands ==
  {h \in FullHands :
     \/ h.thumbUp /\ h.index = "folded" /\ h.middle = "folded" /\ h.ring = "folded"
          /\ h.pinky = "folded" /\ h.raised /\ h.palm = 20 /\ h.sep = 2
     \/ ~h.thumbUp /\ h.index = "straight" /\ h.middle = "folded" /\ h.ring = "folded"
          /\ h.raised /\ h.palm = 20 /\ h.sep = 2
     \/ ~h.thumbUp /\ h.index = "straight" /\ h.middle = "straight" /\ h.ring = "folded"
          /\ h.pinky = "folded" /\ h.raised /\ h.palm = h.sep * 10}

MPResults(pose, hands, left, right, thumbs, indexes) ==
  [pose |-> pose, hands |-> hands, left |-> left, right |-> right,
   thumbDistance |-> thumbs, indexDistance |-> indexes]

MPFrames ==
  {MPResults(p, FALSE, AbsentHand, AbsentHand, 0, 0) : p \in BOOLEAN}
  \cup {MPResults(p, TRUE, AbsentHand, AbsentHand, 0, 0) : p \in BOOLEAN}
  \cup {MPResults(TRUE, TRUE, l, AbsentHand, 0, 0) : l \in FullHands}
  \cup {MPResults(TRUE, TRUE, AbsentHand, r, 0, 0) : r \in SecondHands}
  \cup {MPResults(TRUE, TRUE, l, r, t, i) :
          l \in FullHands, r \in SecondHands, t \in DistChoices, i \in DistChoices}

\* variant: a detector that reports full confidence when it finds nothing
NoResult_Certain == [type |-> "NONE", confidence |-> 100]

\* return { type: 'NONE', confidence: 0 }
NoResult == [type |-> "NONE", confidence |-> 0]

\* getFingerAngle: 180 when a landmark is missing or two joints coincide
getFingerAngle(hand, finger) ==
  CASE hand[finger] = "straight" -> 0
    [] hand[finger] = "bent" -> 16
    [] hand[finger] = "hooked" -> FINGER_EXTENDED_ANGLE
    [] hand[finger] = "folded" -> 180
    [] hand[finger] = "collapsed" -> 180

isFingerExtended(hand, finger) == getFingerAngle(hand, finger) < FINGER_EXTENDED_ANGLE

isFingerCurled(hand, finger) == getFingerAngle(hand, finger) > FINGER_EXTENDED_ANGLE

getFingerCurlConfidence(hand, finger) ==
  MathMax(0, (100 * (getFingerAngle(hand, finger) - FINGER_EXTENDED_ANGLE))
               \div (180 - FINGER_EXTENDED_ANGLE))

\* variant: the extension confidence without Math.max(0, ...)
getFingerExtensionConfidence_Unclamped(hand, finger) ==
  100 - (100 * getFingerAngle(hand, finger)) \div FINGER_EXTENDED_ANGLE

getFingerExtensionConfidence(hand, finger) ==
  MathMax(0, 100 - (100 * getFingerAngle(hand, finger)) \div FINGER_EXTENDED_ANGLE)

checkThumbsUpHand(hand) ==
  IF /\ hand.thumbUp
     /\ isFingerCurled(hand, "index") /\ isFingerCurled(hand, "middle")
     /\ isFingerCurled(hand, "ring") /\ isFingerCurled(hand, "pinky")
    THEN [type |-> "THUMBS_UP_HALO",
          confidence |->
            Over(Plus(Plus(Plus(Plus(100, getFingerCurlConfidence(hand, "index")),
                                getFingerCurlConfidence(hand, "middle")),
                           getFingerCurlConfidence(hand, "ring")),
                      getFingerCurlConfidence(hand, "pinky")), 5)]
    ELSE NoResult

checkRockSignHand(hand) ==
  IF /\ isFingerExtended(hand, "index") /\ isFingerExtended(hand, "pinky")
     /\ ~isFingerExtended(hand, "middle") /\ ~isFingerExtended(hand, "ring")
    THEN [type |-> "ROCK_SIGN",
          confidence |->
            Over(Plus(Plus(Plus(getFingerExtensionConfidence(hand, "index"),
                                getFingerExtensionConfidence(hand, "pinky")),
                           100 - getFingerExtensionConfidence(hand, "middle")),
                      100 - getFingerExtensionConfidence(hand, "ring")), 4)]
    ELSE NoResult

checkPointHand(hand) ==
  IF /\ isFingerExtended(hand, "index") /\ ~isFingerExtended(hand, "middle")
     /\ ~isFingerExtended(hand, "ring") /\ ~isFingerExtended(hand, "pinky")
    THEN [type |-> "POINT_SPARKLES",
          confidence |->
            Over(Plus(Plus(Plus(getFingerExtensionConfidence(hand, "index"),
                                100 - getFingerExtensionConfidence(hand, "middle")),
                           100 - getFingerExtensionConfidence(hand, "ring")),
                      100 - getFingerExtensionConfidence(hand, "pinky")), 4)]
    ELSE NoResult

\* minSeparation = 0.05 * palmWidth; fingerSeparation >= minSeparation;
\* separationConf = Math.min(1, fingerSeparation / (minSeparation * 2))
checkPeaceSignHand(hand) ==
  IF /\ isFingerExtended(hand, "index") /\ isFingerExtended(hand, "middle")
     /\ ~isFingerExtended(hand, "ring") /\ ~isFingerExtended(hand, "pinky")
     /\ hand.raised
     /\ 20 * hand.sep >= hand.palm
    THEN [type |-> "PEACE_SIGN",
          confidence |->
            Over(Plus(Plus(Plus(Plus(getFingerExtensionConfidence(hand, "index"),
                                     getFingerExtensionConfidence(hand, "middle")),
                                100 - getFingerExtensionConfidence(hand, "ring")),
                           100 - getFingerExtensionConfidence(hand, "pinky")),
                      MathMin(100, Ratio(10 * hand.sep, hand.palm))), 5)]
    ELSE NoResult

\* variant: only the left hand is checked
BestOfHands_LeftOnly(mp, leftResult, rightResult) ==
  IF mp.hands /\ mp.left.present /\ Greater(leftResult.confidence, 0)
    THEN leftResult ELSE NoResult

\* "check both hands, return the best result" of the four one-hand detectors
BestOfHands(mp, leftResult, rightResult) ==
  IF ~mp.hands THEN NoResult
  ELSE LET best == IF mp.left.present /\ Greater(leftResult.confidence, 0)
                     THEN leftResult ELSE NoResult
       IN IF mp.right.present /\ Greater(rightResult.confidence, best.confidence)
            THEN rightResult ELSE best

detectThumbsUp(mp) ==
  BestOfHands(mp, checkThumbsUpHand(mp.left), checkThumbsUpHand(mp.right))

\* the y coordinates of two tips differ by no more than their distance; the
\* frames have the tips one above the other
detectTwoHandHeart(mp) ==
  IF ~mp.hands \/ ~mp.left.present \/ ~mp.right.present THEN NoResult
  ELSE IF /\ mp.thumbDistance < HEART_THRESHOLD /\ mp.indexDistance < HEART_THRESHOLD
          /\ mp.thumbDistance < 100 /\ mp.indexDistance < 100
    THEN [type |-> "TWO_HAND_HEART",
          confidence |->
            MathMax(0, 100 - (100 * ((mp.thumbDistance + mp.indexDistance) \div 2))
                               \div HEART_THRESHOLD)]
    ELSE NoResult

detectRockSign(mp) ==
  BestOfHands(mp, checkRockSignHand(mp.left), checkRockSignHand(mp.right))

detectFingerPoint(mp) ==
  BestOfHands(mp, checkPointHand(mp.left), checkPointHand(mp.right))

detectPeaceSign(mp) ==
  BestOfHands(mp, checkPeaceSignHand(mp.left), checkPeaceSignHand(mp.right))

\* the array `gestures` of classifyFrame
Gestures(mp) ==
  <<detectThumbsUp(mp), detectTwoHandHeart(mp), detectRockSign(mp),
    detectFingerPoint(mp), detectPeaceSign(mp)>>

\* the frame as the classifier sees it: whether pose and hands are there and
\* what each detector computes on it
FrameOf(mp) ==
  [pose |-> mp.pose, hands |-> mp.hands,
   d |-> [i \in 1..5 |-> Gestures(mp)[i].confidence]]

InitDetectors ==
  /\ InitClassifier
  /\ eng = NoEngine
  /\ world = NoEngine
  /\ input \in {[mp |-> x, calls |-> 0, gestures |-> [i \in 1..5 |-> NoResult],
                  result |-> NoResult] : x \in MPFrames}

\* updateState(mpResults) with the frame the caller holds
ClassifyHands ==
  /\ input.calls < MaxCalls
  /\ LET f == FrameOf(input.mp)
         r == updateState(cur, graceFramesRemaining, f)
     IN /\ heap' = Collect([heap EXCEPT ![currentState] = r.state],
                           Live(currentState, NoRef, snapRef))
        /\ graceFramesRemaining' = r.grace
        /\ hist' = HistAfterUpdate(hist, cur, heap'[currentState], classifyFrame(f))
        /\ input' = [input EXCEPT !.calls = @ + 1,
                                  !.gestures = [i \in 1..5 |-> Gestures(input.mp)[i]],
                                  !.result = classifyFrame(f)]
  /\ heldRef' = NoRef
  /\ lastOp' = "updateState"
  /\ UNCHANGED <<currentState, snapRef, snapDirty, eng, world>>

NextDetectors == ClassifyHands

SpecDetectors == InitDetectors /\ [][NextDetectors]_vars

(***************************************************************************)
(* Coordinate mapping ('../renderer/crop').  The sources hold two versions *)
(* of the module: "crop", without the source dimensions in CropResult, and *)
(* "config", which maps through source pixels; a run is built with one of  *)
(* them.  Coordinates are exact fractions n / d, or NaN.                    *)
(***************************************************************************)
\* largest source or target dimension, in pixels
MaxDim == 4

CropModules == {"crop", "config"}

Frac(n, d) == [nan |-> FALSE, n |-> n, d |-> d]

NotANumber == [nan |-> TRUE, n |-> 0, d |-> 1]

\* Math.round(a / b) for a >= 0, b > 0
Round(a, b) == (2 * a + b) \div (2 * b)

\* variant: the comparison of the aspects inverted
TooWide_Inverted(vw, vh, tw, th) == vw * th < tw * vh

\* srcAspect > tgtAspect, with vw / vh and tw / th as exact fractions
TooWide(vw, vh, tw, th) == vw * th > tw * vh

computeCenteredCrop(vw, vh, tw, th) ==
  IF TooWide(vw, vh, tw, th)
    THEN LET sw == Round(vh * tw, th)
         IN [sx |-> Round(vw - sw, 2), sy |-> 0, sw |-> sw, sh |-> vh,
             tw |-> tw, th |-> th, vw |-> vw, vh |-> vh]
    ELSE LET sh == Round(vw * th, tw)
         IN [sx |-> 0, sy |-> Round(vh - sh, 2), sw |-> vw, sh |-> sh,
             tw |-> tw, th |-> th, vw |-> vw, vh |-> vh]

\* one axis of normToCropPx, version "crop": nx * crop.sw * (crop.tw / crop.sw);
\* crop.tw / 0 is Infinity and nx * 0 * Infinity is NaN
AxisToCropPx(nx, s, t) ==
  IF s = 0 THEN NotANumber ELSE Frac(nx.n * s * t, nx.d * s)

\* one axis of normToCropPx, version "config":
\* crop.sw > 0 ? ((nx * crop.vw - crop.sx) / crop.sw) * crop.tw : 0
AxisToCropPx_Offset(nx, v, s0, s, t) ==
  IF s > 0 THEN Frac((nx.n * v - s0 * nx.d) * t, nx.d * s) ELSE Frac(0, 1)

normToCropPx(module, nx, ny, crop) ==
  IF module = "crop"
    THEN [x |-> AxisToCropPx(nx, crop.sw, crop.tw),
          y |-> AxisToCropPx(ny, crop.sh, crop.th)]
    ELSE [x |-> AxisToCropPx_Offset(nx, crop.vw, crop.sx, crop.sw, crop.tw),
          y |-> AxisToCropPx_Offset(ny, crop.vh, crop.sy, crop.sh, crop.th)]

\* the normalized source coordinates of the corners of the crop rectangle:
\* top left, top right, bottom left, bottom right
Corners(crop) ==
  LET x0 == Frac(crop.sx, crop.vw)
      x1 == Frac(crop.sx + crop.sw, crop.vw)
      y0 == Frac(crop.sy, crop.vh)
      y1 == Frac(crop.sy + crop.sh, crop.vh)
  IN <<[nx |-> x0, ny |-> y0], [nx |-> x1, ny |-> y0],
       [nx |-> x0, ny |-> y1], [nx |-> x1, ny |-> y1]>>

NoCrop == [sx |-> 0, sy |-> 0, sw |-> 0, sh |-> 0, tw |-> 0, th |-> 0, vw |-> 0, vh |-> 0]

NoPoint == [x |-> Frac(0, 1), y |-> Frac(0, 1)]

InitCrop ==
  /\ InitClassifier
  /\ eng = NoEngine
  /\ world \in {[module |-> m] : m \in CropModules}
  /\ input \in {[vw |-> vw, vh |-> vh, tw |-> tw, th |-> th, done |-> FALSE,
                  crop |-> NoCrop, mapped |-> [i \in 1..4 |-> NoPoint]] :
                   vw \in 1..MaxDim, vh \in 1..MaxDim, tw \in 1..MaxDim, th \in 1..MaxDim}

\* the crop of the frame is computed and its four corners are mapped
MapCorners ==
  /\ ~input.done
  /\ LET crop == computeCenteredCrop(input.vw, input.vh, input.tw, input.th)
         c == Corners(crop)
     IN input' = [input EXCEPT
                    !.done = TRUE,
                    !.crop = crop,
                    !.mapped = [i \in 1..4 |->
                                  normToCropPx(world.module, c[i].nx, c[i].ny, crop)]]
  /\ UNCHANGED <<cvars, eng, world>>

NextCrop == MapCorners

SpecCrop == InitCrop /\ [][NextCrop]_vars

(***************************************************************************)
(* Effects engine (EffectsManager.ts).                                     *)
(*                                                                         *)
(* Time is counted in ticks of 1/9 ms, which makes the frame-time cap      *)
(* (1/30 s = 300 ticks) and the spawn intervals 1000/60, 1000/24 and       *)
(* 1000/9 ms whole numbers.  A particle is a record with the identity of   *)
(* the pooled instance (id), its active flag and its remaining life; the   *)
(* position of a particle is kept only as the time it still needs to leave *)
(* the canvas (balloons: exit) or to reach the ground (sparkles: ground).  *)
(***************************************************************************)
MAX_CONFETTI == 160
MAX_HEARTS == 70
MAX_BOLTS == 3
MAX_SPARKLES == 160
MAX_BALLOONS == 20
GLOBAL_SHUTDOWN_FADE_MS == 400
\* the literal 300 of getActiveParticleCount() >= 300
MAX_PARTICLES_TOTAL == 300
\* ObjectPool.release keeps an instance only while the free list is shorter
POOL_RETAIN == 50
HEART_SPAWN_RATE == 9
HEART_LIFETIME == 1400
SPARKLE_SPAWN_RATE == 24
BALLOON_LIFETIME == 3500
BALLOON_ELLIPSE_HEIGHT == 135

Ms(n) == 9 * n

\* dt = Math.min(now - this.lastTime, 1/30)
FrameCap == Ms(1000) \div 30

Systems == {"confetti", "hearts", "bolts", "sparkles", "balloons"}

SystemCap ==
  [confetti |-> MAX_CONFETTI, hearts |-> MAX_HEARTS, bolts |-> MAX_BOLTS,
   sparkles |-> MAX_SPARKLES, balloons |-> MAX_BALLOONS]

\* a JavaScript array built by map/filter: a sequence with its elements computed
Array(f) == <<>> \o f

\* one value per particle system
PerSystem(F(_)) ==
  [confetti |-> F("confetti"), hearts |-> F("hearts"), bolts |-> F("bolts"),
   sparkles |-> F("sparkles"), balloons |-> F("balloons")]

\* the effect a gesture drives
EffectOf(gesture) ==
  CASE gesture = "THUMBS_UP_HALO" -> "confetti"
    [] gesture = "TWO_HAND_HEART" -> "hearts"
    [] gesture = "ROCK_SIGN" -> "bolts"
    [] gesture = "POINT_SPARKLES" -> "sparkles"
    [] gesture = "PEACE_SIGN" -> "balloons"

(***************************************************************************)
(* The environment of a run: the frame period of the display, the canvas   *)
(* orientation, and where the Math.random() draws fall.                    *)
(*   rich   lifetimes, counts and speeds are drawn at the upper end of     *)
(*          their ranges (otherwise at the lower end)                      *)
(*   quick  the bolt spawn interval and the rocket flight time are drawn   *)
(*          at the lower end of their ranges (otherwise at the upper end)  *)
(*   low    the pointing finger is held just above the bottom edge         *)
(***************************************************************************)
\* RES_9_16.h, RES_16_9.h
CanvasHeight(env) == IF env.portrait THEN 1920 ELSE 1080

\* confetti.life = 3.6 + random * 1.8 (portrait), 3.0 + random * 1.4
ConfettiLife(env) ==
  IF env.portrait THEN (IF env.rich THEN Ms(5400) ELSE Ms(3600))
                  ELSE (IF env.rich THEN Ms(4400) ELSE Ms(3000))

\* heart.life = HEART_LIFETIME / 1000 * (0.9 + random * 0.25)
HeartLife(env) ==
  IF env.rich THEN (Ms(HEART_LIFETIME) * 115) \div 100
              ELSE (Ms(HEART_LIFETIME) * 90) \div 100

\* sparkle.life = 0.5 + random * 0.25
SparkleLife(env) == IF env.rich THEN Ms(750) ELSE Ms(500)

\* a sparkle spawned at a finger tip near the bottom edge falls to
\* canvasHeight - 10 before its life ends; one spawned higher does not
SparkleGround(env, atTip) ==
  IF atTip /\ env.low THEN Ms(300) ELSE SparkleLife(env) + Ms(1000)

\* BALLOON_SPAWN_COUNT[0] + floor(random * 5)
BalloonCount(env) == IF env.rich THEN 10 ELSE 6

\* time a balloon rising at riseSpeed * 60 px/s (BALLOON_RISE_SPEED = [3, 5])
\* needs until y + BALLOON_ELLIPSE_HEIGHT / 2 = 0, from the canvas centre
\* (lock burst) or from canvasHeight + 20 (continuous spawn)
BalloonExit(env, fromCentre) ==
  LET speed == IF env.rich THEN 300 ELSE 180
      dist2 == IF fromCentre THEN CanvasHeight(env) + BALLOON_ELLIPSE_HEIGHT
               ELSE 2 * (CanvasHeight(env) + 20) + BALLOON_ELLIPSE_HEIGHT
  IN (dist2 * Ms(1000)) \div (2 * speed)

\* spawnInterval = 140 + random * 40
BoltInterval(env) == IF env.quick THEN Ms(140) ELSE Ms(180)

\* rocketLife = 0.6 + random * 0.6; the rocket explodes when it is spent
RocketLife(env) == IF env.quick THEN Ms(600) ELSE Ms(1200)

\* createSparksAt: max(6, round(baseCount * scale)) sparks and a white one,
\* baseCount in 18..27, scale in 1.2..1.7 (portrait) or 1.0..1.25
SparkCount(env) ==
  IF env.portrait THEN (IF env.rich THEN 47 ELSE 23)
                  ELSE (IF env.rich THEN 35 ELSE 19)

\* the longest spark life, (0.5 + random * 0.9) * (0.9 + 0.6 * scale)
SparkLife(env) ==
  IF env.portrait THEN (IF env.rich THEN Ms(2688) ELSE Ms(810))
                  ELSE (IF env.rich THEN Ms(2310) ELSE Ms(750))

(***************************************************************************)
(* ObjectPool                                                              *)
(***************************************************************************)
PoolObject(o) == [id |-> o.id, active |-> o.active]

\* new ObjectPool(createFn, initialSize)
NewPool(initialSize) ==
  Array([i \in 1..initialSize |-> [id |-> i, active |-> FALSE]])

\* get(): this.pool.pop() || this.createFn()
Get(e, sys) ==
  LET p == e.pool[sys]
  IN IF Len(p) > 0
     THEN [obj |-> p[Len(p)],
           e |-> [e EXCEPT !.pool[sys] = SubSeq(p, 1, Len(p) - 1)]]
     ELSE [obj |-> [id |-> e.made[sys] + 1, active |-> FALSE],
           e |-> [e EXCEPT !.made[sys] = @ + 1]]

\* release(obj) for each element of objs in turn
ReleaseAll(p, objs) ==
  LET room == Max(0, POOL_RETAIN - Len(p))
  IN p \o SubSeq(objs, 1, Min(room, Len(objs)))

\* every removed particle released a second time
ReleaseAll_Twice(p, objs) == ReleaseAll(ReleaseAll(p, objs), objs)

\* the release calls of a removal loop
ReleaseRemoved(p, objs) == ReleaseAll(p, objs)

\* history: how many of objs the free list did not take
Dropped(p, objs) == Len(p) + Len(objs) - Len(ReleaseAll(p, objs))

\* the loops that walk an active list from its end, set active = false and
\* release each removed particle
Retired(dead) ==
  Array([i \in 1..Len(dead) |-> [id |-> dead[Len(dead) + 1 - i].id, active |-> FALSE]])

Retire(e, sys, keep, dead) ==
  [e EXCEPT !.active[sys] = keep,
            !.pool[sys] = ReleaseRemoved(@, Retired(dead)),
            !.lost[sys] = @ + Dropped(e.pool[sys], Retired(dead))]

RECURSIVE BoltParticles(_, _)
BoltParticles(bolts, i) ==
  IF i > Len(bolts) THEN 0
  ELSE bolts[i].nsparks + (IF bolts[i].rocket # "none" THEN 1 ELSE 0)
       + BoltParticles(bolts, i + 1)

getActiveParticleCount(e) ==
  Len(e.active.confetti) + Len(e.active.hearts) + BoltParticles(e.active.bolts, 1)
  + Len(e.active.sparkles) + Len(e.active.balloons)

(***************************************************************************)
(* Spawning.  log.overCap (history) collects the systems for which a       *)
(* spawn call took an instance from its pool although                      *)
(* getActiveParticleCount() had already reached the global cap.            *)
(***************************************************************************)
\* activeX.length <= MAX_X
HasRoom_Inclusive(e, sys) == Len(e.active[sys]) <= SystemCap[sys]

\* the per-system guard of every spawn loop: activeX.length < MAX_X
HasRoom(e, sys) == Len(e.active[sys]) < SystemCap[sys]

Borrow(e, sys, fields) ==
  LET g == Get(e, sys)
      atCap == getActiveParticleCount(e) >= MAX_PARTICLES_TOTAL
  IN [g.e EXCEPT
        !.active[sys] = Append(@, [id |-> g.obj.id, active |-> TRUE] @@ fields),
        !.log.overCap = IF atCap THEN @ \cup {sys} ELSE @]

spawnConfetti(e, env) ==
  IF getActiveParticleCount(e) >= MAX_PARTICLES_TOTAL THEN e
  ELSE Borrow(e, "confetti", [life |-> ConfettiLife(env)])

spawnHeart(e, env) == Borrow(e, "hearts", [life |-> HeartLife(env)])

\* bolt.reset() and a rocket that has not exploded
spawnBolt(e, env) ==
  Borrow(e, "bolts", [life |-> 0, rocket |-> "flying", fuse |-> RocketLife(env),
                      nsparks |-> 0, sparkLife |-> 0])

spawnBoltAtBottom(e, env) ==
  IF getActiveParticleCount(e) >= MAX_PARTICLES_TOTAL THEN e ELSE spawnBolt(e, env)

spawnSparkle(e, env, atTip) ==
  IF getActiveParticleCount(e) >= MAX_PARTICLES_TOTAL THEN e
  ELSE Borrow(e, "sparkles", [life |-> SparkleLife(env),
                              ground |-> SparkleGround(env, atTip)])

spawnBalloon(e, env, fromCentre) ==
  Borrow(e, "balloons", [life |-> Ms(BALLOON_LIFETIME),
                         exit |-> BalloonExit(env, fromCentre)])

\* the spawn call of a lock burst, at the canvas centre
SpawnBurst(e, env, sys) ==
  CASE sys = "confetti" -> spawnConfetti(e, env)
    [] sys = "hearts" -> spawnHeart(e, env)
    [] sys = "sparkles" -> spawnSparkle(e, env, FALSE)
    [] sys = "balloons" -> spawnBalloon(e, env, TRUE)

\* for (i = 0; i < n && active.length < cap; i++) spawn()
RECURSIVE BurstLoop(_, _, _, _, _)
BurstLoop(e, env, sys, i, n) ==
  IF i < n /\ HasRoom(e, sys)
  THEN BurstLoop(SpawnBurst(e, env, sys), env, sys, i + 1, n)
  ELSE e

resetEffectForGesture(e, gesture) ==
  LET sys == EffectOf(gesture)
  IN [Retire(e, sys, <<>>, e.active[sys]) EXCEPT !.timer[sys] = 0]

\* a burst one confetti short
BurstCount_Short(gesture, env) ==
  CASE gesture = "THUMBS_UP_HALO" -> 119
    [] gesture = "TWO_HAND_HEART" -> 20
    [] gesture = "POINT_SPARKLES" -> 30
    [] gesture = "PEACE_SIGN" -> BalloonCount(env)
    [] OTHER -> 0

\* the burst of a lock event: the count asked for
BurstCount(gesture, env) ==
  CASE gesture = "THUMBS_UP_HALO" -> 120
    [] gesture = "TWO_HAND_HEART" -> 20
    [] gesture = "POINT_SPARKLES" -> 30
    [] gesture = "PEACE_SIGN" -> BalloonCount(env)
    [] OTHER -> 0

triggerLockEvent(e, gesture, env) ==
  BurstLoop(resetEffectForGesture(e, gesture), env, EffectOf(gesture), 0,
            BurstCount(gesture, env))

\* while (timer >= spawnInterval && activeConfetti.length < MAX_CONFETTI)
RECURSIVE ConfettiLoop(_, _)
ConfettiLoop(e, env) ==
  LET spawnInterval == Ms(1000) \div 60
  IN IF e.timer.confetti >= spawnInterval /\ HasRoom(e, "confetti")
     THEN ConfettiLoop([spawnConfetti(e, env) EXCEPT !.timer.confetti = @ - spawnInterval],
                       env)
     ELSE e

updateConfettiSpawn(e, env) ==
  IF e.lastGestureState # "THUMBS_UP_HALO" THEN e
  ELSE ConfettiLoop([e EXCEPT !.timer.confetti = @ + Ms(16)], env)

RECURSIVE HeartLoop(_, _)
HeartLoop(e, env) ==
  LET spawnInterval == Ms(1000) \div HEART_SPAWN_RATE
  IN IF e.timer.hearts >= spawnInterval /\ HasRoom(e, "hearts")
     THEN HeartLoop([spawnHeart(e, env) EXCEPT !.timer.hearts = @ - spawnInterval], env)
     ELSE e

\* hands: the number of hands in mpResults.hands
updateHeartSpawn(e, hands, env, dtMs) ==
  IF e.lastGestureState # "TWO_HAND_HEART" \/ hands = 0 THEN e
  ELSE HeartLoop([e EXCEPT !.timer.hearts = @ + dtMs], env)

\* hands: the number of hands for which isRockSignHand holds
updateLightningSpawn(e, hands, env) ==
  IF e.lastGestureState # "ROCK_SIGN" \/ hands = 0 THEN e
  ELSE LET t == [e EXCEPT !.timer.bolts = @ + Ms(16)]
       IN IF t.timer.bolts >= BoltInterval(env) /\ HasRoom(t, "bolts")
          THEN [spawnBoltAtBottom(t, env) EXCEPT !.timer.bolts = 0]
          ELSE t

\* for (i = 0; i < tips.length; i++) with its two breaks
RECURSIVE SparkleTips(_, _, _, _)
SparkleTips(e, env, i, tips) ==
  IF i >= tips \/ ~HasRoom(e, "sparkles")
     \/ getActiveParticleCount(e) >= MAX_PARTICLES_TOTAL
  THEN e
  ELSE SparkleTips(spawnSparkle(e, env, TRUE), env, i + 1, tips)

RECURSIVE SparkleLoop(_, _, _)
SparkleLoop(e, env, tips) ==
  LET spawnInterval == Ms(1000) \div SPARKLE_SPAWN_RATE
  IN IF e.timer.sparkles >= spawnInterval
     THEN SparkleLoop([SparkleTips(e, env, 0, tips)
                         EXCEPT !.timer.sparkles = @ - spawnInterval], env, tips)
     ELSE e

\* hands: the number of hands for which isPointingHand holds (tips.length)
updateSparkleSpawn(e, hands, env) ==
  IF e.lastGestureState # "POINT_SPARKLES" \/ hands = 0 THEN e
  ELSE SparkleLoop([e EXCEPT !.timer.sparkles = @ + Ms(16)], env, hands)

RECURSIVE BalloonBatch(_, _, _)
BalloonBatch(e, env, i) ==
  IF i >= 3 \/ ~HasRoom(e, "balloons")
     \/ getActiveParticleCount(e) >= MAX_PARTICLES_TOTAL
  THEN e
  ELSE BalloonBatch(spawnBalloon(e, env, FALSE), env, i + 1)

\* hands: the number of hands for which isPeaceSignHand holds
updateBalloonSpawn(e, hands, env) ==
  IF ~e.balloonsEnabled \/ hands = 0 THEN e
  ELSE LET t == [e EXCEPT !.timer.balloons = @ + Ms(16)]
       IN IF t.timer.balloons >= Ms(400) /\ HasRoom(t, "balloons")
          THEN [BalloonBatch(t, env, 0) EXCEPT !.timer.balloons = 0]
          ELSE t

(***************************************************************************)
(* Particle updates                                                        *)
(***************************************************************************)
\* Particle.update: life -= dt; return life > 0
Aged(o, dt) == [o EXCEPT !.life = @ - dt]

\* SparkleParticle.update also moves the sparkle towards the ground
AgedSparkle(o, dt) == [o EXCEPT !.life = @ - dt, !.ground = @ - dt]

\* BalloonParticle.update also moves the balloon towards the top edge
AgedBalloon(o, dt) == [o EXCEPT !.life = @ - dt, !.exit = @ - dt]

\* LightningBolt.update, the state it leaves
AgedBolt(b, dt, env) ==
  LET flying == b.rocket = "flying"
      explodes == flying /\ b.fuse - dt <= 0
      r == IF explodes
           THEN [b EXCEPT !.fuse = @ - dt, !.rocket = "exploded",
                          !.nsparks = SparkCount(env),
                          !.sparkLife = SparkLife(env), !.life = SparkLife(env)]
           ELSE IF flying THEN [b EXCEPT !.fuse = @ - dt] ELSE b
  IN [r EXCEPT !.sparkLife = IF @ > 0 THEN @ - dt ELSE @, !.life = @ - dt]

\* LightningBolt.update, its result, from the state it left
BoltAlive(b) == b.rocket = "flying" \/ (b.sparkLife > 0 /\ b.life > 0)

\* the particles of one active list after their update calls
Stepped(list, sys, dt, env) ==
  [i \in 1..Len(list) |->
     CASE sys = "bolts" -> AgedBolt(list[i], dt, env)
       [] sys = "sparkles" -> AgedSparkle(list[i], dt)
       [] sys = "balloons" ->
            IF list[i].exit < 0 THEN list[i] ELSE AgedBalloon(list[i], dt)
       [] OTHER -> Aged(list[i], dt)]

\* a particle stays in its list: update returned true, and a balloon had not
\* risen above the top edge before the update
Survives(pre, post, sys) ==
  CASE sys = "bolts" -> pre.active /\ BoltAlive(post)
    [] sys = "balloons" -> pre.exit >= 0 /\ pre.active /\ post.life > 0
    [] OTHER -> pre.active /\ post.life > 0

Untag(t) == Array([i \in 1..Len(t) |-> t[i].o])

\* one loop of updateParticles
updateSystem(e, sys, dt, env) ==
  LET old == e.active[sys]
      s == Stepped(old, sys, dt, env)
      t == [i \in 1..Len(old) |-> [o |-> s[i], keep |-> Survives(old[i], s[i], sys)]]
  IN Retire(e, sys, Untag(SelectSeq(t, LAMBDA x : x.keep)),
                    Untag(SelectSeq(t, LAMBDA x : ~x.keep)))

updateParticles(e, dt, env) ==
  updateSystem(
    updateSystem(
      updateSystem(
        updateSystem(
          updateSystem(e, "confetti", dt, env),
          "hearts", dt, env),
        "bolts", dt, env),
      "sparkles", dt, env),
    "balloons", dt, env)

\* renderSparkles: sparkles at canvasHeight - 10 are removed
renderSparkles(e) ==
  Retire(e, "sparkles", SelectSeq(e.active.sparkles, LAMBDA o : o.ground > 0),
                        SelectSeq(e.active.sparkles, LAMBDA o : o.ground <= 0))

\* clampLife of the release event
clampLife(o) ==
  IF o.active THEN [o EXCEPT !.life = Min(@, Ms(GLOBAL_SHUTDOWN_FADE_MS))] ELSE o

\* clear() without its last two assignments
clear_KeepsTracking(e) ==
  [e EXCEPT
     !.pool = PerSystem(LAMBDA s :
                ReleaseRemoved(e.pool[s],
                               Array([i \in 1..Len(e.active[s]) |->
                                        PoolObject(e.active[s][i])]))),
     !.lost = PerSystem(LAMBDA s : e.lost[s] + Dropped(e.pool[s], e.active[s])),
     !.active = PerSystem(LAMBDA s : <<>>),
     !.timer = PerSystem(LAMBDA s : 0),
     !.lastTimeZero = TRUE]

\* clear(): forEach release (the active flags are left as they are)
clear(e) ==
  [e EXCEPT
     !.pool = PerSystem(LAMBDA s :
                ReleaseRemoved(e.pool[s],
                               Array([i \in 1..Len(e.active[s]) |->
                                        PoolObject(e.active[s][i])]))),
     !.lost = PerSystem(LAMBDA s : e.lost[s] + Dropped(e.pool[s], e.active[s])),
     !.active = PerSystem(LAMBDA s : <<>>),
     !.timer = PerSystem(LAMBDA s : 0),
     !.lastTimeZero = TRUE,
     !.lastGestureState = "NONE",
     !.balloonsEnabled = FALSE]

InitialLog ==
  [op |-> "init", lockEvent |-> FALSE, releaseEvent |-> FALSE,
   timerClear |-> FALSE, overCap |-> {}]

\* dt = Math.min(now - this.lastTime, 1/30); lastTime is 0 before the first
\* call and after clear()
FrameTime(e, env) == IF e.lastTimeZero THEN FrameCap ELSE Min(env.period, FrameCap)

BeginFrame(e, gesture) ==
  [e EXCEPT !.lastTimeZero = FALSE,
            !.log = [InitialLog EXCEPT !.op = "updateAndRender"]]

\* variant: every change to a gesture counts as an activation
RisingEdge_AnyChange(e, gesture) == gesture # "NONE" /\ e.lastGestureState # gesture

\* !wasLocked && isLocked
RisingEdge(e, gesture) == e.lastGestureState = "NONE" /\ gesture # "NONE"

\* variant: a pending shutdown survives the activation
CancelShutdown_Not(e) == e

\* if (this.shuttingDown) { this.shuttingDown = false; this.shutdownTimer = 0 }
CancelShutdown(e) ==
  IF e.shuttingDown THEN [e EXCEPT !.shuttingDown = FALSE, !.shutdownTimer = 0] ELSE e

\* if (!wasLocked && isLocked); the log notes that triggerLockEvent ran
LockEvent(e, gesture, env) ==
  IF RisingEdge(e, gesture)
  THEN triggerLockEvent([CancelShutdown(e) EXCEPT !.log.lockEvent = TRUE], gesture, env)
  ELSE e

\* if (wasLocked && !isLocked); the log notes that the fade was started
ReleaseEvent(e, gesture) ==
  IF e.lastGestureState # "NONE" /\ gesture = "NONE"
  THEN [e EXCEPT !.log.releaseEvent = TRUE,
                 !.shuttingDown = TRUE,
                 !.shutdownTimer = Ms(GLOBAL_SHUTDOWN_FADE_MS),
                 !.active = PerSystem(LAMBDA s :
                              Array([i \in 1..Len(e.active[s]) |->
                                       clampLife(e.active[s][i])]))]
  ELSE e

\* balloonsEnabled follows the PEACE_SIGN gesture
BalloonSwitch(e, gesture) ==
  IF e.lastGestureState # "PEACE_SIGN" /\ gesture = "PEACE_SIGN"
  THEN [e EXCEPT !.balloonsEnabled = TRUE, !.timer.balloons = 0]
  ELSE IF e.lastGestureState = "PEACE_SIGN" /\ gesture # "PEACE_SIGN"
       THEN [e EXCEPT !.balloonsEnabled = FALSE]
       ELSE e

\* this.lastGestureState = gesture
Track(e, gesture) == [e EXCEPT !.lastGestureState = gesture]

\* if (this.shuttingDown) { this.shutdownTimer -= dt * 1000 ... this.clear() }
ShutdownTick(e, dt) ==
  IF e.shuttingDown
  THEN IF e.shutdownTimer - dt <= 0
       THEN clear([e EXCEPT !.shuttingDown = FALSE, !.shutdownTimer = 0,
                            !.log.timerClear = TRUE])
       ELSE [e EXCEPT !.shutdownTimer = @ - dt]
  ELSE e

\* the gesture's render and continuous spawn
GestureSpawn(e, gesture, hands, env, dt) ==
  CASE gesture = "THUMBS_UP_HALO" -> updateConfettiSpawn(e, env)
    [] gesture = "TWO_HAND_HEART" -> updateHeartSpawn(e, hands, env, dt)
    [] gesture = "ROCK_SIGN" -> updateLightningSpawn(e, hands, env)
    [] gesture = "POINT_SPARKLES" -> updateSparkleSpawn(renderSparkles(e), hands, env)
    [] OTHER -> e

\* if (this.balloonsEnabled) this.updateBalloonSpawn(...)
BalloonSpawn(e, hands, env) ==
  IF e.balloonsEnabled THEN updateBalloonSpawn(e, hands, env) ELSE e

updateAndRender(e0, gesture, hands, env) ==
  BalloonSpawn(
    GestureSpawn(
      ShutdownTick(
        updateParticles(
          Track(
            BalloonSwitch(
              ReleaseEvent(
                LockEvent(BeginFrame(e0, gesture), gesture, env),
                gesture),
              gesture),
            gesture),
          FrameTime(e0, env), env),
        FrameTime(e0, env)),
      gesture, hands, env, FrameTime(e0, env)),
    hands, env)

\* the engine after construction
InitialEngine ==
  [active |-> PerSystem(LAMBDA s : <<>>),
   pool |-> PerSystem(LAMBDA s : NewPool(SystemCap[s])),
   made |-> PerSystem(LAMBDA s : SystemCap[s]),
   lost |-> PerSystem(LAMBDA s : 0),
   timer |-> PerSystem(LAMBDA s : 0),
   lastGestureState |-> "NONE",
   balloonsEnabled |-> FALSE,
   shuttingDown |-> FALSE,
   shutdownTimer |-> 0,
   lastTimeZero |-> TRUE,
   log |-> InitialLog]

(***************************************************************************)
(* The engine driven by its caller.  input is the caller's script so far:  *)
(* the gesture and the number of hands (all showing that gesture's sign)   *)
(* it last passed, for how many consecutive calls (held), and how often it *)
(* has changed them or called clear() (events).  The caller changes its    *)
(* input only after holding it for one of HoldChoices calls; its first     *)
(* input it may also hold for up to LongHold calls, without a change after *)
(* that.  A caller with the deep script always shows two hands and makes   *)
(* up to DeepEvents changes.                                               *)
(***************************************************************************)
MaxHold == 45
MaxEvents == 2
LongHold == 100
DeepEvents == 3

HoldChoices == {1, MaxHold}

HandsChoices == {0, 2}

\* a 30 Hz display with a 9:16 canvas (the default aspect) and a 60 Hz display
\* with a 16:9 canvas
PortraitEnv ==
  [period |-> FrameCap, portrait |-> TRUE, rich |-> TRUE, quick |-> TRUE, low |-> FALSE]

LandscapeEnv ==
  [period |-> FrameCap \div 2, portrait |-> FALSE, rich |-> FALSE, quick |-> FALSE,
   low |-> TRUE]

Envs == {PortraitEnv, LandscapeEnv}

Inputs ==
  {[gesture |-> g, hands |-> n] : g \in GestureType \ {"NONE"}, n \in HandsChoices}
  \cup {[gesture |-> "NONE", hands |-> 0]}

\* what the caller may pass next
InputsOf(in) == IF in.deep THEN {i \in Inputs : i.hands # 0 \/ i.gesture = "NONE"} ELSE Inputs

EventBudget(in) == IF in.deep THEN DeepEvents ELSE MaxEvents

HoldLimit(in) == IF in.events = 0 /\ ~in.deep THEN LongHold ELSE MaxHold

InitialInput ==
  [gesture |-> "NONE", hands |-> 0, held |-> 0, events |-> 0, deep |-> FALSE]

InitEngine ==
  /\ InitClassifier
  /\ eng = InitialEngine
  /\ input = InitialInput
  /\ world \in Envs

\* the engine on a 9:16 canvas with a caller that follows the deep script
InitEngineDeep ==
  /\ InitClassifier
  /\ eng = InitialEngine
  /\ input = [InitialInput EXCEPT !.deep = TRUE]
  /\ world = PortraitEnv

UpdateAndRender ==
  \E i \in InputsOf(input) :
    LET same == input.held > 0 /\ i.gesture = input.gesture /\ i.hands = input.hands
        first == input.held = 0
    IN /\ IF same THEN input.held < HoldLimit(input)
          ELSE first \/ (input.held \in HoldChoices /\ input.events < EventBudget(input))
       /\ eng' = updateAndRender(eng, i.gesture, i.hands, world)
       /\ input' = [input EXCEPT
                      !.gesture = i.gesture, !.hands = i.hands,
                      !.held = IF same THEN input.held + 1 ELSE 1,
                      !.events = IF same \/ first THEN @ ELSE @ + 1]
       /\ UNCHANGED <<world, cvars>>

\* HaloApp.reset: this.effectsManager.clear()
Clear ==
  /\ input.held \in HoldChoices
  /\ input.events < EventBudget(input)
  /\ eng' = [clear(eng) EXCEPT !.log = [InitialLog EXCEPT !.op = "clear"]]
  /\ input' = [input EXCEPT !.gesture = "NONE", !.hands = 0, !.held = 0,
                            !.events = @ + 1]
  /\ UNCHANGED <<world, cvars>>

NextEngine == UpdateAndRender \/ Clear

SpecEngine == InitEngine /\ [][NextEngine]_vars

SpecEngineDeep == InitEngineDeep /\ [][NextEngine]_vars

(***************************************************************************)
(* HaloApp (part_002), not in manual mode.  Every tick of the frame loop   *)
(* has a processed frame; the person in front of the camera shows one      *)
(* gesture (with both hands) or none for a run of ticks, and changes after *)
(* a run of one of AppHolds ticks.  input is the app: the run so far, its  *)
(* fields currentGesture and countdownActive, the ticks the countdown has  *)
(* run, and a log of what the last tick called.  heldRef is                *)
(* HaloApp.lastGestureState.  The display runs at 30 Hz.                   *)
(***************************************************************************)
\* changes of the shown gesture and resets in one run of the app
MaxAppEvents == 3

AppGestures == {"THUMBS_UP_HALO", "TWO_HAND_HEART"}

AppHolds == {1, LOST_GRACE_FRAMES + 1, STABILITY_FRAMES}

\* countdownDuration = 3000 ms, in ticks of the frame loop
CountdownTicks == 90

\* the MPResults of a tick in which the person shows type
AppFrame(type) ==
  [pose |-> TRUE, hands |-> type # "NONE",
   d |-> [i \in 1..5 |-> IF DetectorOrder[i] = type THEN 100 ELSE 0]]

\* what the effect of gesture reads from the hands of such a frame
AppHands(gesture, type) ==
  IF type = "NONE" THEN 0
  ELSE IF type = gesture \/ gesture = "TWO_HAND_HEART" THEN 2
  ELSE 0

InitialApp ==
  [frame |-> "NONE", held |-> 0, events |-> 0,
   currentGesture |-> "NONE", countdownActive |-> FALSE, countdownTicks |-> 0,
   op |-> "init", rendered |-> FALSE, started |-> FALSE, cancelled |-> FALSE,
   captured |-> FALSE]

\* const wasLocked = this.lastGestureState?.locked || false, read from the
\* object lastGestureState refers to when handleGestureStateChange runs
WasLocked(h, ref) == IF ref = NoRef THEN FALSE ELSE h[ref].locked

startCountdown(app) ==
  [app EXCEPT !.countdownActive = TRUE, !.countdownTicks = 0, !.started = TRUE]

cancelCountdown(app) ==
  [app EXCEPT !.countdownActive = FALSE, !.cancelled = TRUE]

handleGestureStateChange(app, wasLocked, state) ==
  LET a1 == IF ~wasLocked /\ state.locked /\ state.type # "NONE"
              THEN startCountdown(app) ELSE app
  IN IF wasLocked /\ ~state.locked THEN cancelCountdown(a1) ELSE a1

\* the countdown has run for one more tick when update() reaches it
updateCountdown(app) ==
  IF ~app.countdownActive \/ app.started THEN app
  ELSE IF app.countdownTicks + 1 >= CountdownTicks
    THEN [cancelCountdown(app) EXCEPT !.captured = TRUE]
    ELSE [app EXCEPT !.countdownTicks = @ + 1]

\* const shouldShowEffects = this.lastGestureState?.locked && this.currentGesture !== 'NONE'
shouldShowEffects(app, h, ref) ==
  ref # NoRef /\ h[ref].locked /\ app.currentGesture # "NONE"

InitApp ==
  /\ InitClassifier
  /\ eng = InitialEngine
  /\ input = InitialApp
  /\ world = PortraitEnv

\* one pass of loop(): update() and render()
AppTick ==
  \E type \in AppGestures \cup {"NONE"} :
    LET same == input.held > 0 /\ type = input.frame
        r == updateState(cur, graceFramesRemaining, AppFrame(type))
        h == [heap EXCEPT ![currentState] = r.state]
        begun == [input EXCEPT !.currentGesture = r.state.type,
                               !.op = "tick", !.rendered = FALSE, !.started = FALSE,
                               !.cancelled = FALSE, !.captured = FALSE]
        app == updateCountdown(
                 handleGestureStateChange(begun, WasLocked(h, heldRef),
                                          r.state))
        show == shouldShowEffects(app, h, currentState)
    IN /\ IF same THEN input.held < STABILITY_FRAMES + 1
          ELSE input.held = 0 \/ (input.held \in AppHolds /\ input.events < MaxAppEvents)
       /\ heap' = Collect(h, Live(currentState, currentState, snapRef))
       /\ graceFramesRemaining' = r.grace
       /\ heldRef' = currentState
       /\ lastOp' = "updateState"
       /\ hist' = HistAfterUpdate(hist, cur, r.state, classifyFrame(AppFrame(type)))
       /\ eng' = IF show
                   THEN updateAndRender(eng, app.currentGesture,
                                        AppHands(app.currentGesture, type), world)
                   ELSE eng
       /\ input' = [app EXCEPT !.frame = type,
                               !.held = IF same THEN input.held + 1 ELSE 1,
                               !.events = IF same \/ input.held = 0 THEN @ ELSE @ + 1,
                               !.rendered = show]
       /\ UNCHANGED <<currentState, snapRef, snapDirty, world>>

\* HaloApp.reset(): classifier.reset(), effectsManager.clear(),
\* currentGesture = 'NONE'; lastGestureState is left as it is
AppReset ==
  LET live == Live(NoRef, heldRef, snapRef)
      fresh == Alloc(live)
  IN /\ input.held \in AppHolds
     /\ input.events < MaxAppEvents
     /\ currentState' = fresh
     /\ heap' = Collect([heap EXCEPT ![fresh] = ResetState], live \cup {fresh})
     /\ graceFramesRemaining' = ResetGrace
     /\ lastOp' = "reset"
     /\ hist' = [InitialHist EXCEPT !.resetFrom = StateKind(cur, graceFramesRemaining)]
     /\ eng' = [clear(eng) EXCEPT !.log = [InitialLog EXCEPT !.op = "clear"]]
     /\ input' = [input EXCEPT !.currentGesture = "NONE", !.held = 0,
                               !.events = @ + 1, !.op = "reset", !.rendered = FALSE,
                               !.started = FALSE, !.cancelled = FALSE,
                               !.captured = FALSE]
     /\ UNCHANGED <<heldRef, snapRef, snapDirty, world>>

NextApp == AppTick \/ AppReset

SpecApp == InitApp /\ [][NextApp]_vars

(***************************************************************************)
(* Claims about the classifier                                             *)
(***************************************************************************)

\* C1: a run of frames of one non-NONE gesture that began while the classifier
\* was unlocked leaves locked = false after each of its first
\* STABILITY_FRAMES - 1 frames and locked = true, on that gesture, from frame
\* STABILITY_FRAMES on.
C1_LockOnNthFrame ==
  (lastOp = "updateState" /\ hist.runFromUnlocked /\ hist.frameType # "NONE")
    => /\ cur.locked <=> hist.runLen >= STABILITY_FRAMES
       /\ cur.type = hist.frameType
       /\ ~cur.locked => cur.stabilityCount = hist.runLen

C1_Witness ==
  /\ lastOp = "updateState" /\ hist.runFromUnlocked
  /\ hist.frameType # "NONE" /\ hist.runLen = STABILITY_FRAMES
  /\ cur.locked /\ cur.stabilityCount = STABILITY_FRAMES
  /\ graceFramesRemaining = LOST_GRACE_FRAMES

\* C2 as stated: after LOST_GRACE_FRAMES consecutive frames that differ from the
\* locked gesture G the classifier is no longer locked on G.
C2_Original ==
  (hist.lockG # "NONE" /\ hist.missLen >= LOST_GRACE_FRAMES)
    => ~(cur.locked /\ cur.type = hist.lockG)

\* C2 amended: after LOST_GRACE_FRAMES + 1 (or more) consecutive frames that
\* differ from the locked gesture G the lock on G is gone: the classifier is
\* unlocked (until a later lock on another gesture), its type is that of the
\* latest frame, and its stabilityCount counts no more than the current run of
\* frames of that type.
C2_UnlockAfterGrace ==
  (hist.lockG # "NONE" /\ hist.missLen >= LOST_GRACE_FRAMES + 1)
    => /\ cur.type # hist.lockG
       /\ cur.type = hist.frameType
       /\ ~cur.locked
       /\ cur.stabilityCount >= 1 /\ cur.stabilityCount <= hist.runLen

C2_Witness ==
  /\ hist.lockG # "NONE" /\ hist.missRuns = 1
  /\ hist.missLen = LOST_GRACE_FRAMES + 1 /\ hist.missTotal = LOST_GRACE_FRAMES + 1
  /\ ~cur.locked /\ cur.stabilityCount = 1 /\ cur.type # hist.lockG

\* C3: during and after the first run of fewer than LOST_GRACE_FRAMES frames
\* that differ from the gesture G just locked, the state keeps locked = true
\* and type = G.
C3_ShortExcursionKeepsLock ==
  (hist.lockG # "NONE" /\ hist.missRuns <= 1 /\ hist.missTotal < LOST_GRACE_FRAMES)
    => cur.locked /\ cur.type = hist.lockG

C3_Witness ==
  /\ hist.lockG # "NONE" /\ hist.missRuns = 1
  /\ hist.missTotal = LOST_GRACE_FRAMES - 1 /\ hist.missLen = 0
  /\ cur.locked /\ cur.type = hist.lockG /\ hist.frameType = hist.lockG

\* C4: an updateState call changes locked from true to false only when the calls
\* immediately before it form a run of at least LOST_GRACE_FRAMES frames that
\* differ from the locked gesture.
C4_UnlockOnlyAfterConsecutiveRun ==
  [][(lastOp' = "updateState" /\ cur.locked /\ ~heap'[currentState'].locked)
       => hist.missLen >= LOST_GRACE_FRAMES]_vars

\* C5: locked implies type # NONE, and stabilityCount is never negative.
C5_LockedNotNone ==
  /\ cur.locked => cur.type # "NONE"
  /\ cur.stabilityCount >= 0

C5_Witness ==
  /\ cur.locked /\ cur.type # "NONE"
  /\ graceFramesRemaining < LOST_GRACE_FRAMES
  /\ hist.frameType = "NONE"

\* C6: reset() leaves {NONE, 0, false, 0} and a grace counter of 0.
C6_ResetClears ==
  lastOp = "reset"
    => /\ cur = [type |-> "NONE", confidence |-> 0, locked |-> FALSE,
                 stabilityCount |-> 0]
       /\ graceFramesRemaining = 0

C6_Witness ==
  /\ lastOp = "reset" /\ hist.resetFrom = "grace"
  /\ cur.type = "NONE" /\ graceFramesRemaining = 0

\* C7: the object an updateState call returned keeps its fields when updateState
\* is called again.
C7_ReturnedStateImmutable ==
  [][(lastOp' = "updateState" /\ heldRef # NoRef)
       => heap'[heldRef] = heap[heldRef]]_vars

\* C8: a write to the object returned by getCurrentState() leaves the
\* classifier's state as it was, and updateState and reset leave an object
\* returned by getCurrentState() as it was.
C8_SnapshotIsCopy ==
  [][/\ lastOp' = "mutate"
          => /\ currentState' = currentState
             /\ heap'[currentState] = heap[currentState]
             /\ graceFramesRemaining' = graceFramesRemaining
     /\ (lastOp' \in {"updateState", "reset"} /\ snapRef # NoRef)
          => /\ snapRef' = snapRef
             /\ heap'[snapRef] = heap[snapRef]]_vars

C8_Witness ==
  /\ snapRef # NoRef /\ snapDirty /\ lastOp = "updateState"
  /\ snapRef # currentState
  /\ heap[snapRef].stabilityCount # cur.stabilityCount


(***************************************************************************)
(* Claims about the effects engine                                         *)
(***************************************************************************)

\* C9: after any sequence of engine operations the number of simultaneously
\* active particles, summed over confetti, hearts, bolts (rocket and
\* sparks), sparkles and balloons, is at most the global cap of 300.
C9_TotalWithinGlobalCap ==
  getActiveParticleCount(eng) <= MAX_PARTICLES_TOTAL

\* C10: once the active particle count has reached the global cap, a spawn
\* request of any system is a no-op: no spawn call of the last engine
\* operation took an instance from a pool while the count was 300 or more.
C10_SpawnAtCapIsNoOp ==
  eng.log.overCap = {}

\* C11: in every reachable engine state each system is within its own cap:
\* confetti <= 160, hearts <= 70, bolts <= 3, sparkles <= 160, balloons <= 20.
C11_PerSystemCaps ==
  \A s \in Systems : Len(eng.active[s]) <= SystemCap[s]

\* three bolts beside a full confetti list, after a continuous spawn call
\* that found both systems at their caps
C11_Witness ==
  /\ Len(eng.active.bolts) = MAX_BOLTS
  /\ Len(eng.active.confetti) = MAX_CONFETTI
  /\ eng.lastGestureState = "ROCK_SIGN"
  /\ eng.timer.bolts > Ms(16)

\* identities of the instances in a free list or an active list
Ids(list) == {list[i].id : i \in 1..Len(list)}

\* C12: between engine operations every particle instance is either in its
\* pool's free list with active = false or in exactly one active list with
\* active = true, never in both and never twice in an active list.
C12_PooledInactiveListedActive ==
  \A s \in Systems :
    /\ \A i \in 1..Len(eng.pool[s]) : ~eng.pool[s][i].active
    /\ \A i \in 1..Len(eng.active[s]) : eng.active[s][i].active
    /\ Ids(eng.pool[s]) \cap Ids(eng.active[s]) = {}
    /\ Cardinality(Ids(eng.active[s])) = Len(eng.active[s])

\* C13 as stated: every particle that leaves an active list is released once
\* and the pool retains it: no instance is twice in a free list, none is in
\* a free list and an active list, and none has been lost.
C13_Original ==
  \A s \in Systems :
    /\ Cardinality(Ids(eng.pool[s])) = Len(eng.pool[s])
    /\ Ids(eng.pool[s]) \cap Ids(eng.active[s]) = {}
    /\ eng.lost[s] = 0

\* C13 (amended): every particle that leaves an active list is released
\* exactly once; the free list keeps it unless it already holds 50 instances,
\* in which case the instance is dropped.  So no instance is twice in a free
\* list, none is in a free list and an active list, and every instance ever
\* constructed is in the free list, in the active list or dropped.
C13_ReleasedOnce ==
  \A s \in Systems :
    /\ Cardinality(Ids(eng.pool[s])) = Len(eng.pool[s])
    /\ Ids(eng.pool[s]) \cap Ids(eng.active[s]) = {}
    /\ Ids(eng.pool[s]) \cup Ids(eng.active[s]) \subseteq 1..eng.made[s]
    /\ Len(eng.pool[s]) + Len(eng.active[s]) + eng.lost[s] = eng.made[s]
    /\ eng.lost[s] >= 0

\* confetti have left their list: the free list took some, up to its limit,
\* and the others were dropped
C13_Witness ==
  /\ eng.lost.confetti > 0
  /\ Len(eng.pool.confetti) = POOL_RETAIN
  /\ eng.made.confetti = MAX_CONFETTI
  /\ eng.active.confetti = <<>>

\* the active list of the effect of the gesture the engine is tracking
TrackedList(e) == e.active[EffectOf(e.lastGestureState)]

\* C14: from construction on, and after any sequence of get / release and
\* clear(), the free list of every pool holds at most 50 instances.
C14_FreeListBounded ==
  \A s \in Systems : Len(eng.pool[s]) <= POOL_RETAIN

C16_FadeWindow ==
  /\ eng.shuttingDown =>
       \A s \in Systems : \A i \in 1..Len(eng.active[s]) :
          eng.active[s][i].life <= Ms(GLOBAL_SHUTDOWN_FADE_MS)
  /\ (input.gesture = "NONE" /\ input.held * Min(world.period, FrameCap) >= Ms(GLOBAL_SHUTDOWN_FADE_MS)) =>
       /\ \A s \in Systems : eng.active[s] = <<>>
       /\ ~eng.shuttingDown

\* C17: clear(), in whatever state it is called, leaves the five active lists
\* empty, every particle they held handed to its pool's release (which keeps
\* it or drops it), the five spawn timers at 0, lastGestureState NONE and
\* balloonsEnabled false.
C17_ClearResets ==
  [][eng'.log.op = "clear" =>
       /\ \A s \in Systems :
            /\ eng'.active[s] = <<>>
            /\ eng'.timer[s] = 0
            /\ Len(eng'.pool[s]) + (eng'.lost[s] - eng.lost[s])
                 = Len(eng.pool[s]) + Len(eng.active[s])
            /\ Ids(eng.active[s]) \subseteq Ids(eng'.pool[s]) \/ eng'.lost[s] > eng.lost[s]
       /\ eng'.lastGestureState = "NONE"
       /\ ~eng'.balloonsEnabled]_vars

\* clear() was called while a gesture was tracked and particles were active
C17_Witness ==
  /\ eng.log.op = "clear"
  /\ input.events > 0
  /\ \E s \in Systems : \E i \in 1..Len(eng.pool[s]) : eng.pool[s][i].active

\* C18: classifyFrame returns the result of the detector with the highest
\* confidence, of the earliest such detector in the order thumbs-up, heart,
\* rock, point, peace when several share it, and returns NONE only when no
\* detector matched.
C18_HighestConfidenceWins ==
  input.calls > 0 =>
    LET g == input.gestures
        top == CHOOSE c \in {g[i].confidence : i \in 1..5} :
                 \A i \in 1..5 : g[i].confidence <= c
        first == CHOOSE i \in 1..5 :
                   g[i].confidence = top /\ \A j \in 1..(i - 1) : g[j].confidence # top
    IN /\ input.result = g[first]
       /\ input.result.type = "NONE" => \A i \in 1..5 : g[i].type = "NONE"

\* two detectors matched with the same, highest confidence
C18_Witness ==
  /\ input.calls > 0
  /\ \E i \in 1..5 : \E j \in (i + 1)..5 :
       /\ input.gestures[i].type # "NONE"
       /\ input.gestures[j].type # "NONE"
       /\ input.gestures[i].confidence = input.gestures[j].confidence
       /\ input.result = input.gestures[i]
  /\ \E k \in 1..5 : /\ input.gestures[k].type # "NONE"
                       /\ input.gestures[k].confidence < input.result.confidence

\* C19: a frame with neither pose nor hand data, and a frame whose hands
\* object holds no left and no right hand, is classified as (NONE, 0).
C19_EmptyFrameIsNone ==
  (/\ input.calls > 0
   /\ \/ ~input.mp.pose /\ ~input.mp.hands
      \/ input.mp.hands /\ ~input.mp.left.present /\ ~input.mp.right.present)
  => /\ input.result.type = "NONE"
     /\ input.result.confidence = 0

\* a frame with a hands object but no hand in it has been classified
C19_Witness ==
  /\ input.calls > 0
  /\ input.mp.hands
  /\ ~input.mp.left.present /\ ~input.mp.right.present
  /\ input.result.type = "NONE"

\* C20: the confidence of every detector, of classifyFrame and of the stored
\* GestureState lies in [0, 1] (0 to 100 percent), degenerate hands included.
C20_ConfidenceInUnitInterval ==
  input.calls > 0 =>
    /\ \A i \in 1..5 : input.gestures[i].confidence \in 0..100
    /\ input.result.confidence \in 0..100
    /\ cur.confidence \in 0..100

\* a peace hand of zero palm width and zero finger separation, whose own
\* confidence is 0 / 0, beside a second hand that is recognised
C20_Witness ==
  /\ input.calls = MaxCalls
  /\ input.mp.left.present
  /\ input.mp.left.palm = 0 /\ input.mp.left.sep = 0
  /\ checkPeaceSignHand(input.mp.left).type = "PEACE_SIGN"
  /\ checkPeaceSignHand(input.mp.left).confidence = NaN
  /\ input.result.type # "NONE"
  /\ cur.confidence = input.result.confidence

\* the frame has both hands, thumb tips and index tips within 0.03 of each
\* other (and so within 0.05 vertically)
HeartPosed ==
  /\ input.calls > 0
  /\ input.mp.hands /\ input.mp.left.present /\ input.mp.right.present
  /\ input.mp.thumbDistance < 30 /\ input.mp.indexDistance < 30

\* C21 as stated: such a frame is classified TWO_HAND_HEART with confidence
\* above 0.5 whatever the fingers of the two hands show.
C21_Original ==
  HeartPosed => /\ input.result.type = "TWO_HAND_HEART"
                /\ input.result.confidence > 50

\* C21 (amended): on such a frame the heart detector reports TWO_HAND_HEART
\* with confidence above 0.5, and classifyFrame returns that result exactly
\* when the thumbs-up detector reports less and the rock, point and peace
\* detectors report no more; otherwise it returns the gesture that beats it.
C21_HeartUnlessOutbid ==
  HeartPosed =>
    LET g == input.gestures
        heart == g[2]
    IN /\ heart.type = "TWO_HAND_HEART"
       /\ heart.confidence > 50
       /\ input.result.type # "NONE"
       /\ input.result.confidence >= heart.confidence
       /\ input.result = heart <=>
            /\ g[1].confidence < heart.confidence
            /\ \A i \in 3..5 : g[i].confidence <= heart.confidence

\* a heart frame on which another detector matched too and lost
C21_Witness ==
  /\ HeartPosed
  /\ input.result.type = "TWO_HAND_HEART"
  /\ input.mp.thumbDistance > 0
  /\ \E i \in {1, 3, 4, 5} : input.gestures[i].type # "NONE"

\* index and pinky below 40 degrees, middle and ring above
RockHand(hand) ==
  /\ hand.present
  /\ getFingerAngle(hand, "index") < 40 /\ getFingerAngle(hand, "pinky") < 40
  /\ getFingerAngle(hand, "middle") > 40 /\ getFingerAngle(hand, "ring") > 40

RockPosed ==
  /\ input.calls > 0
  /\ input.mp.hands
  /\ RockHand(input.mp.left) \/ RockHand(input.mp.right)

\* C22 as stated: a frame with such a hand is classified ROCK_SIGN whatever
\* the other hand shows.
C22_Original ==
  RockPosed => input.result.type = "ROCK_SIGN"

\* C22 (amended): on a frame with such a hand, left or right, the rock
\* detector reports ROCK_SIGN with confidence above 0.5, and classifyFrame
\* returns that result exactly when the thumbs-up and heart detectors report
\* less and the point and peace detectors report no more.
C22_RockUnlessOutbid ==
  RockPosed =>
    LET g == input.gestures
        rock == g[3]
    IN /\ rock.type = "ROCK_SIGN"
       /\ rock.confidence > 50
       /\ input.result.type # "NONE"
       /\ input.result.confidence >= rock.confidence
       /\ input.result = rock <=>
            /\ \A i \in 1..2 : g[i].confidence < rock.confidence
            /\ \A i \in 4..5 : g[i].confidence <= rock.confidence

\* a rock hand on the right beside a left hand that matched another detector
\* with less confidence
C22_Witness ==
  /\ RockPosed
  /\ RockHand(input.mp.right) /\ ~RockHand(input.mp.left)
  /\ input.result.type = "ROCK_SIGN"
  /\ \E i \in {1, 2, 4, 5} : input.gestures[i].type # "NONE"

WithinCanvas(v, t) == ~v.nan /\ 0 <= v.n /\ v.n <= t * v.d

IsValue(v, k) == ~v.nan /\ v.n = k * v.d

\* C24: the four corners of the crop rectangle map into the canvas, the top
\* left one to (0, 0) and the bottom right one to (tw, th).
C24_CornersOnCanvas ==
  input.done =>
    /\ \A i \in 1..4 : /\ WithinCanvas(input.mapped[i].x, input.tw)
                        /\ WithinCanvas(input.mapped[i].y, input.th)
    /\ IsValue(input.mapped[1].x, 0) /\ IsValue(input.mapped[1].y, 0)
    /\ IsValue(input.mapped[4].x, input.tw) /\ IsValue(input.mapped[4].y, input.th)

\* C25: normToCropPx returns 0 on an axis whose crop width or height is 0,
\* and never a value that is not a number.
C25_ZeroCropMapsToZero ==
  input.done =>
    \A i \in 1..4 :
      /\ ~input.mapped[i].x.nan /\ ~input.mapped[i].y.nan
      /\ input.crop.sw = 0 => IsValue(input.mapped[i].x, 0)
      /\ input.crop.sh = 0 => IsValue(input.mapped[i].y, 0)

\* C26: in every call that continues TWO_HAND_HEART the heart spawn timer
\* advances by the frame time and a heart is spawned for every full spawn
\* interval on it, with or without hands in the frame.
C26_HeartsSpawnWithoutHands ==
  [][(/\ eng'.log.op = "updateAndRender"
      /\ ~eng'.log.lockEvent
      /\ eng'.lastGestureState = "TWO_HAND_HEART")
     => \E k \in 0..MAX_HEARTS :
          /\ eng'.timer.hearts
               = eng.timer.hearts + FrameTime(eng, world) - k * (Ms(1000) \div HEART_SPAWN_RATE)
          /\ k = 0 => \/ eng'.timer.hearts < Ms(1000) \div HEART_SPAWN_RATE
                      \/ Len(eng'.active.hearts) >= MAX_HEARTS]_vars

\* C27: while locked on G, an updateState call whose frame classifies as G
\* leaves type, confidence, locked, stabilityCount and the grace counter as
\* they were, whatever the confidence of the frame.
C27_LockedSameFrameChangesNothing ==
  [][(lastOp' = "updateState" /\ cur.locked /\ hist'.frameType = cur.type)
       => /\ heap'[currentState'] = cur
          /\ graceFramesRemaining' = graceFramesRemaining]_vars

\* a locked classifier that was just given a frame of its gesture with a
\* higher confidence than the stored one, after some grace was used
C27_Witness ==
  /\ lastOp = "updateState" /\ cur.locked
  /\ hist.frameType = cur.type /\ hist.runLen = 1
  /\ hist.frameConf > cur.confidence
  /\ graceFramesRemaining < LOST_GRACE_FRAMES

\* C28: the call that finds the lock on G out of grace with a frame of another
\* type T unlocks and returns {T, confidence of the frame, unlocked, count 1};
\* a gesture T then locks on the STABILITY_FRAMES-th consecutive T frame,
\* the unlocking call included.
C28_UnlockProcessesFrame ==
  /\ [][(/\ lastOp' = "updateState" /\ cur.locked
          /\ hist'.frameType # cur.type /\ graceFramesRemaining = 0)
         => /\ hist'.sinceUnlock = 1
            /\ heap'[currentState'] =
                 [type |-> hist'.frameType, confidence |-> hist'.frameConf,
                  locked |-> FALSE, stabilityCount |-> 1]]_vars
  /\ []((lastOp = "updateState" /\ hist.sinceUnlock > 0 /\ hist.frameType # "NONE")
          => /\ cur.type = hist.frameType
             /\ cur.locked <=> hist.sinceUnlock >= STABILITY_FRAMES
             /\ ~cur.locked => cur.stabilityCount = hist.sinceUnlock)

\* a gesture that locked on the STABILITY_FRAMES-th frame of a run that began
\* with the call that unlocked another gesture
C28_Witness ==
  /\ lastOp = "updateState" /\ cur.locked
  /\ hist.sinceUnlock = STABILITY_FRAMES /\ hist.runLen = STABILITY_FRAMES
  /\ cur.stabilityCount = STABILITY_FRAMES
  /\ hist.missTotal = 0

\* C29 as stated: the reset, and stabilityCount equal to the length of the
\* current run of identical-type frames whenever the classifier is unlocked.
C29_Original ==
  /\ [][(/\ lastOp' = "updateState" /\ ~cur.locked
          /\ (hist'.frameType # cur.type \/ hist'.frameType = "NONE"))
         => heap'[currentState'] =
              [type |-> hist'.frameType, confidence |-> hist'.frameConf,
               locked |-> FALSE, stabilityCount |-> 1]]_vars
  /\ []((lastOp = "updateState" /\ ~cur.locked)
          => cur.stabilityCount = hist.runLen)

\* C29: while unlocked, a frame of another type, or a NONE frame, resets the
\* state to {type and confidence of the frame, unlocked, count 1}; the count
\* equals the length of the current run for a gesture run that began
\* unlocked, is 1 throughout a NONE run, and counts from the unlocking call
\* in a run that began under a lock.
C29_ResetOnChange ==
  /\ [][(/\ lastOp' = "updateState" /\ ~cur.locked
          /\ (hist'.frameType # cur.type \/ hist'.frameType = "NONE"))
         => heap'[currentState'] =
              [type |-> hist'.frameType, confidence |-> hist'.frameConf,
               locked |-> FALSE, stabilityCount |-> 1]]_vars
  /\ []((lastOp = "updateState" /\ ~cur.locked)
          => /\ cur.type = hist.frameType
             /\ hist.frameType = "NONE" => cur.stabilityCount = 1
             /\ (hist.frameType # "NONE" /\ hist.runFromUnlocked)
                  => cur.stabilityCount = hist.runLen
             /\ (hist.frameType # "NONE" /\ hist.sinceUnlock > 0)
                  => cur.stabilityCount = hist.sinceUnlock)

\* a gesture run restarted by one interrupting frame: the count is 1 again
\* although the gesture had accumulated frames before
C29_Witness ==
  /\ lastOp = "updateState" /\ ~cur.locked
  /\ cur.type # "NONE" /\ cur.stabilityCount = 1
  /\ hist.runLen = 1 /\ hist.runFromUnlocked
  /\ hist.frameConf = cur.confidence
  /\ hist.missRuns > 0

\* C30: every lock acquisition sets the grace counter to LOST_GRACE_FRAMES,
\* and while a gesture accumulates the stored confidence is the highest
\* confidence among the frames counted so far.
C30_LockRestoresGrace ==
  /\ [][(lastOp' = "updateState" /\ ~cur.locked /\ heap'[currentState'].locked)
         => graceFramesRemaining' = LOST_GRACE_FRAMES]_vars
  /\ []((lastOp = "updateState" /\ ~cur.locked /\ cur.type # "NONE")
          => cur.confidence = hist.accMax)

\* a re-lock: the run began with the call that used up the grace of an
\* earlier lock, and the locking frame was less confident than an earlier one
C30_Witness ==
  /\ lastOp = "updateState" /\ cur.locked
  /\ hist.sinceUnlock = STABILITY_FRAMES /\ hist.missTotal = 0
  /\ graceFramesRemaining = LOST_GRACE_FRAMES
  /\ hist.frameConf < cur.confidence

\* C31: a lock event (reset and burst) fires in exactly the calls whose
\* gesture is not NONE after a call with NONE (or after construction or
\* clear()), a release event (fade) in exactly the calls with NONE after a
\* call with a gesture, and a change from one gesture to another fires
\* neither.
C31_EventsAreEdges ==
  [][eng'.log.op = "updateAndRender"
     => /\ eng'.log.lockEvent <=> (input.gesture = "NONE" /\ input'.gesture # "NONE")
        /\ eng'.log.releaseEvent <=> (input.gesture # "NONE" /\ input'.gesture = "NONE")
        /\ eng'.log.releaseEvent
             => /\ eng'.shuttingDown
                /\ eng'.shutdownTimer
                     = Ms(GLOBAL_SHUTDOWN_FADE_MS) - FrameTime(eng, world)
        /\ (input.gesture # "NONE" /\ input'.gesture # "NONE")
             => ~eng'.shuttingDown]_vars

\* a call that changed from a gesture straight to ROCK_SIGN: no event, and
\* the confetti of the earlier gesture are still active
C31_Witness ==
  /\ eng.log.op = "updateAndRender"
  /\ ~eng.log.lockEvent /\ ~eng.log.releaseEvent
  /\ input.gesture = "ROCK_SIGN" /\ input.held = 1 /\ input.events > 0
  /\ Len(eng.active.confetti) > 0
  /\ Len(eng.active.bolts) = 0

\* C32: a call with a gesture while a graceful shutdown is pending cancels
\* the shutdown: shuttingDown is false and the timer 0 afterwards, clear()
\* does not run (it runs only in a call that began with a shutdown
\* pending), and the particles of every system but the gesture's own are
\* aged in their active lists like in any other call.
C32_LockCancelsShutdown ==
  /\ [][(/\ eng'.log.op = "updateAndRender"
          /\ eng.shuttingDown /\ input'.gesture # "NONE")
         => /\ eng'.log.lockEvent
            /\ ~eng'.shuttingDown /\ eng'.shutdownTimer = 0
            /\ ~eng'.log.timerClear
            /\ \A s \in Systems \ {EffectOf(input'.gesture)} :
                 eng'.active[s]
                   = updateParticles(eng, FrameTime(eng, world), world).active[s]]_vars
  /\ [][eng'.log.timerClear => eng.shuttingDown]_vars

\* a lock event that cancelled a shutdown: the confetti of the gesture
\* released before are still fading while ROCK_SIGN is active
C32_Witness ==
  /\ eng.log.op = "updateAndRender" /\ eng.log.lockEvent
  /\ input.gesture = "ROCK_SIGN" /\ input.events = 2
  /\ ~eng.shuttingDown /\ eng.shutdownTimer = 0
  /\ Len(eng.active.confetti) > 0

\* C33: balloons are updated and rendered whenever balloonsEnabled is set,
\* whatever the gesture: a call that leaves PEACE_SIGN for another gesture
\* while balloons are in the active list keeps balloonsEnabled set, so the
\* balloons overlay the new gesture.
C33_BalloonsOverlayNextGesture ==
  [][(/\ eng'.log.op = "updateAndRender"
      /\ input.gesture = "PEACE_SIGN"
      /\ input'.gesture \notin {"PEACE_SIGN", "NONE"}
      /\ Len(eng'.active.balloons) > 0)
     => eng'.balloonsEnabled]_vars

\* C37: in every state reached by updateState and reset calls stabilityCount
\* lies in 0..STABILITY_FRAMES, and locked is true exactly when it equals
\* STABILITY_FRAMES.
C37_CountBoundsAndLock ==
  /\ cur.stabilityCount \in 0..STABILITY_FRAMES
  /\ cur.locked <=> cur.stabilityCount = STABILITY_FRAMES

\* a lock that has seen further frames of its gesture and misses: the count
\* has stopped at the threshold
C37_Witness ==
  /\ lastOp = "updateState" /\ cur.locked
  /\ cur.stabilityCount = STABILITY_FRAMES
  /\ hist.frameType = cur.type /\ hist.runLen > 1
  /\ graceFramesRemaining < LOST_GRACE_FRAMES

\* C38: the grace counter lies in 0..LOST_GRACE_FRAMES and is 0 whenever the
\* classifier is unlocked; a frame of another type while locked with grace
\* left lowers it by exactly 1 and leaves the state as it was.
C38_GraceBoundsAndStep ==
  /\ [](/\ graceFramesRemaining \in 0..LOST_GRACE_FRAMES
         /\ ~cur.locked => graceFramesRemaining = 0)
  /\ [][(/\ lastOp' = "updateState" /\ cur.locked
          /\ hist'.frameType # cur.type /\ graceFramesRemaining > 0)
         => /\ graceFramesRemaining' = graceFramesRemaining - 1
            /\ heap'[currentState'] = cur
            /\ currentState' = currentState]_vars

\* the last grace frame of a lock was just spent
C38_Witness ==
  /\ lastOp = "updateState" /\ cur.locked
  /\ hist.frameType # cur.type
  /\ graceFramesRemaining = 0
  /\ hist.missTotal = LOST_GRACE_FRAMES

\* C39: clear() leaves no graceful shutdown pending: shuttingDown is false and
\* shutdownTimer is 0 after it, as in a newly constructed engine, so that no
\* timer-driven clear() follows.
C39_ClearEndsShutdown ==
  [][eng'.log.op = "clear" => (~eng'.shuttingDown /\ eng'.shutdownTimer = 0)]_vars

\* C40: for positive integer dimensions the crop rectangle lies inside the
\* source frame; when the source is wider than the target (vw/vh > tw/th)
\* the full height is kept and the width is cropped and centred, otherwise
\* the full width is kept and the height is cropped and centred.
C40_CropInsideSource ==
  input.done =>
    LET c == input.crop
    IN /\ 0 <= c.sx /\ 0 <= c.sy /\ 0 <= c.sw /\ 0 <= c.sh
       /\ c.sx + c.sw <= input.vw
       /\ c.sy + c.sh <= input.vh
       /\ IF input.vw * input.th > input.tw * input.vh
            THEN /\ c.sy = 0 /\ c.sh = input.vh
                 /\ input.vw - c.sw - 2 * c.sx \in {-1, 0}
            ELSE /\ c.sx = 0 /\ c.sw = input.vw
                 /\ input.vh - c.sh - 2 * c.sy \in {-1, 0}

\* a source wider than the target whose crop starts right of the left edge
\* and ends left of the right edge
C40_Witness ==
  /\ input.done
  /\ input.vw * input.th > input.tw * input.vh
  /\ input.crop.sx > 0 /\ input.crop.sw > 0
  /\ input.crop.sx + input.crop.sw < input.vw

\* C34: on the tick of the frame loop at which the classifier goes from
\* unlocked to locked on a gesture, handleGestureStateChange starts the
\* countdown (countdownActive is true after the tick), and on the tick at
\* which the lock is lost it cancels the countdown.
C34_CountdownFollowsLock ==
  [][input'.op = "tick"
     => /\ (~cur.locked /\ heap'[currentState'].locked)
             => (input'.started /\ input'.countdownActive)
        /\ (cur.locked /\ ~heap'[currentState'].locked)
             => (input'.cancelled /\ ~input'.countdownActive)]_vars

\* C35: on the tick at which the classifier goes from locked to unlocked the
\* engine receives an updateAndRender call with NONE, its release event.
C35_UnlockReleasesEffects ==
  [][(input'.op = "tick" /\ cur.locked /\ ~heap'[currentState'].locked)
     => /\ input'.rendered
        /\ eng'.log.releaseEvent
        /\ eng'.lastGestureState = "NONE"]_vars

\* C36: on every tick at which the classifier acquires a lock on a gesture,
\* also after an earlier lock was lost without reset(), the engine is called
\* with the gesture and fires its lock event.
C36_EveryLockFiresLockEvent ==
  [][(input'.op = "tick" /\ ~cur.locked /\ heap'[currentState'].locked)
     => /\ input'.rendered
        /\ eng'.lastGestureState = heap'[currentState'].type
        /\ eng'.log.lockEvent]_vars

=============================================================================
